---------------------------- MODULE Spec2Model ----------------------------
(***************************************************************************)
(* Model of src/main.py: the /generate-ppt request handler (generate_ppt), *)
(* the card layout routine (add_cards_on_slide) and the image fitter       *)
(* (crop_image_to_ratio).                                                  *)
(*                                                                         *)
(* Numbers.  The Python code computes in IEEE doubles.  The model computes *)
(* in exact rationals <<n, d>> (d > 0, lowest terms).  A target ratio      *)
(* <<n, d>> stands for the double nearest n/d, which is what the request's *)
(* canvasAspectRatio and the default of line 206 are.  In                  *)
(* crop_image_to_ratio the two arithmetics part in three places, and there *)
(* the model follows the doubles by carrying their rounding errors as      *)
(* exact rationals: the test of line 45 at an exact distance of 1/100      *)
(* (tie_is_within), and the int() of lines 49 and 53 when the exact value  *)
(* is a whole number (product_rounds_below, quotient_rounds_below).        *)
(* Lengths on the page are in inches, as they are handed to                *)
(* pptx.util.Inches by the code.                                           *)
(***************************************************************************)
EXTENDS Integers, Sequences, FiniteSets, TLC

(***************************************************************************)
(* Exact rational arithmetic                                               *)
(***************************************************************************)
RECURSIVE GCD(_, _)
GCD(a, b) == IF b = 0 THEN a ELSE GCD(b, a % b)

Abs(x) == IF x < 0 THEN -x ELSE x
Min(a, b) == IF a < b THEN a ELSE b
Max(a, b) == IF a > b THEN a ELSE b

\* the rational n/d in lowest terms with a positive denominator (d # 0)
Rat(n, d) ==
    LET g == GCD(Abs(n), Abs(d))
        s == IF d < 0 THEN -1 ELSE 1
    IN  <<s * (n \div g), s * (d \div g)>>

RInt(k)    == <<k, 1>>
\* sums over the least common denominator and products after cancelling
\* across, which keeps the intermediate integers small
RAdd(x, y) ==
    LET g == GCD(x[2], y[2])
    IN  Rat(x[1] * (y[2] \div g) + y[1] * (x[2] \div g), (x[2] \div g) * y[2])
RNeg(x)    == <<-x[1], x[2]>>
RSub(x, y) == RAdd(x, RNeg(y))
RMul(x, y) ==
    LET a == Rat(x[1], y[2])
        b == Rat(y[1], x[2])
    IN  Rat(a[1] * b[1], a[2] * b[2])
RDiv(x, y) == RMul(x, <<y[2], y[1]>>)
RLt(x, y)  == RSub(x, y)[1] < 0
RLe(x, y)  == RSub(x, y)[1] <= 0
RAbs(x)    == <<Abs(x[1]), x[2]>>
RZero      == <<0, 1>>

\* Python int(x) on a float: truncation toward zero
int(x) == IF x[1] >= 0 THEN x[1] \div x[2] ELSE -((-x[1]) \div x[2])

\* Python round(x) on a float: nearest integer, ties to the even one
round(x) ==
    LET f  == x[1] \div x[2]                 \* floor, since x[2] > 0
        r2 == 2 * (x[1] - f * x[2])          \* twice the fractional part * d
    IN  IF r2 < x[2] THEN f
        ELSE IF r2 > x[2] THEN f + 1
        ELSE IF f % 2 = 0 THEN f ELSE f + 1

(***************************************************************************)
(* crop_image_to_ratio (src/main.py 40-55).  An image is its size          *)
(* [width, height]; PIL's crop returns the image of the box's size.        *)
(***************************************************************************)
Tolerance == <<1, 100>>                       \* the literal 0.01 of line 45

img_ratio(img) == Rat(img.width, img.height)  \* line 43, needs height # 0

\* floor(log2(n / d)) for n, d > 0: the binade of the double n / d
RECURSIVE Exponent(_, _)
Exponent(n, d) ==
    IF n >= 2 * d THEN Exponent(n, 2 * d) + 1
    ELSE IF n < d THEN Exponent(2 * n, d) - 1
    ELSE 0

\* 2^k mod q, k >= 0, q > 0, by repeated squaring
RECURSIVE Pow2Mod(_, _)
Pow2Mod(k, q) ==
    IF k = 0 THEN 1 % q
    ELSE IF k % 2 = 1 THEN (2 * Pow2Mod(k - 1, q)) % q
    ELSE LET half == Pow2Mod(k \div 2, q) IN (half * half) % q

\* 2^x as a rational, x any integer
Pow2(x) == IF x >= 0 THEN <<2^x, 1>> ELSE <<1, 2^(-x)>>

\* The double nearest n / d (n, d > 0) is the result of the float division
\* n / d and the value of a decimal literal worth n / d.  With
\* e = Exponent(n, d) it is q * 2^(e - 52), q the quotient of n * 2^(52 - e)
\* by d rounded to the nearest integer, ties to the even one; that is
\* n / d + round_err(n, d) / (d * 2^(52 - e)).
round_err(n, d) ==
    LET k   == 52 - Exponent(n, d)
        rem == ((n % d) * Pow2Mod(k, d)) % d
        odd == ((n % (2 * d)) * Pow2Mod(k, 2 * d)) % (2 * d) >= d
    IN  IF 2 * rem < d \/ (2 * rem = d /\ ~odd) THEN -rem ELSE d - rem

\* (the double nearest n / d) - n / d, in units of 2^-60; n >= 0, d > 0
ulp_error(n, d) ==
    IF n <= 0 THEN RZero
    ELSE RMul(Rat(round_err(n, d), d), Pow2(8 + Exponent(n, d)))

\* The literal 0.01 of line 45 is the double 1/100 + ulp_error(1, 100) / 2^60;
\* the doubles around it are 2^-59 apart and its significand is odd.  So a
\* real x rounds to a double below it exactly when x is at most half a
\* spacing, 2^-60, below it: x <= 1/100 + TieThreshold / 2^60.
TieThreshold == RSub(ulp_error(1, 100), RInt(1))

\* line 45: abs(img_ratio - target_ratio) < 0.01
within_tolerance_exact(img, target_ratio) == img_ratio(img) = target_ratio

\* line 45 when the exact ratios are exactly 1/100 apart.  The subtraction
\* takes the doubles of the two ratios; their exact difference is 1/100
\* plus or minus the difference of their rounding errors, and is rounded
\* once more, to the doubles around 0.01.
tie_is_within(img, target_ratio) ==
    LET diff   == RSub(ulp_error(img.width, img.height),
                       ulp_error(target_ratio[1], target_ratio[2]))
        signed == IF RLt(target_ratio, img_ratio(img)) THEN diff ELSE RNeg(diff)
    IN  RLe(signed, TieThreshold)

within_tolerance(img, target_ratio) ==
    LET dist == RAbs(RSub(img_ratio(img), target_ratio))
    IN  \/ RLt(dist, Tolerance)
        \/ dist = Tolerance /\ tie_is_within(img, target_ratio)

\* the binade of the doubles just below the whole number m >= 1
ExponentBelow(m) == Exponent(2 * m - 1, 2)

\* line 49 when target_ratio * img_height is exactly the whole number m >= 1:
\* the double of the ratio may lie below the ratio, and the product then
\* lies below m by |round_err| * img_height / (d * 2^(52 - e)); it is
\* rounded to a double below m, and int() gives m - 1, when that is more
\* than half the spacing 2^(ExponentBelow(m) - 52) of the doubles below m.
product_rounds_below(target_ratio, img_height, m) ==
    LET n == target_ratio[1]
        d == target_ratio[2]
        s == round_err(n, d)
    IN  /\ s < 0
        /\ RLt(RInt(1), RMul(Rat((-s) * img_height, d),
                             Pow2(1 + Exponent(n, d) - ExponentBelow(m))))

\* line 53 when img_width / target_ratio is exactly the whole number m >= 1:
\* the double of the ratio may lie above the ratio, and the quotient then
\* lies below m; it is rounded to a double below m, and int() gives m - 1,
\* when round_err * m * 2^(1 + e - ExponentBelow(m)) exceeds the numerator.
quotient_rounds_below(target_ratio, m) ==
    LET n == target_ratio[1]
        d == target_ratio[2]
        s == round_err(n, d)
    IN  /\ s > 0
        /\ RLt(RInt(n), RMul(RInt(s * m),
                             Pow2(1 + Exponent(n, d) - ExponentBelow(m))))

\* line 49: new_width = int(target_ratio * img_height), target_ratio > 0
new_width_ceil(img, target_ratio) ==
    int(RMul(target_ratio, RInt(img.height))) + 1
new_width(img, target_ratio) ==
    LET y == RMul(target_ratio, RInt(img.height))
        m == int(y)
    IN  IF y[2] = 1 /\ m >= 1
           /\ product_rounds_below(target_ratio, img.height, m)
        THEN m - 1
        ELSE m

\* line 53: new_height = int(img_width / target_ratio), target_ratio > 0
new_height(img, target_ratio) ==
    LET y == RDiv(RInt(img.width), target_ratio)
        m == int(y)
    IN  IF y[2] = 1 /\ m >= 1 /\ quotient_rounds_below(target_ratio, m)
        THEN m - 1
        ELSE m

\* lines 50 and 54: offset = (dim - new_dim) // 2
offset_biased(dim, new_dim) == dim - new_dim
offset(dim, new_dim) == (dim - new_dim) \div 2

\* the box handed to img.crop, <<left, upper, right, lower>>; the whole
\* image when line 46 returns the input
crop_box(img, target_ratio) ==
    IF within_tolerance(img, target_ratio)
    THEN <<0, 0, img.width, img.height>>
    ELSE IF RLt(target_ratio, img_ratio(img))
    THEN LET nw == new_width(img, target_ratio)
             o  == offset(img.width, nw)
         IN  <<o, 0, o + nw, img.height>>
    ELSE LET nh == new_height(img, target_ratio)
             o  == offset(img.height, nh)
         IN  <<0, o, img.width, o + nh>>

\* PIL Image.crop: an image of the size of the box
crop(img, box) == [width |-> box[3] - box[1], height |-> box[4] - box[2]]

crop_image_to_ratio(img, target_ratio) == crop(img, crop_box(img, target_ratio))

\* line 43 divides by the height: ZeroDivisionError on an empty image
crop_raises(img) == img.height = 0


(***************************************************************************)
(* Optional values: None is the empty tuple, a present value a 1-tuple.    *)
(***************************************************************************)
None      == <<>>
Some(x)   == <<x>>
IsNone(o) == Len(o) = 0
Get(o)    == o[1]

(***************************************************************************)
(* Page geometry (src/main.py 61-72, 196-197), in inches.                  *)
(***************************************************************************)
slide_width  == <<827, 100>>                  \* Inches(8.27), A4 width
slide_height == <<1169, 100>>                 \* Inches(11.69), A4 height
chunk_size   == 4

grid_width_inch  == RDiv(slide_width, RInt(2))    \* line 64
grid_height_inch == RDiv(slide_height, RInt(2))   \* line 65
grid_ratio       == RDiv(grid_width_inch, grid_height_inch)   \* line 79

\* lines 67-72, indexed from 1: <<left, top>> of the four quadrants
grid_positions_column_major ==
    << <<RZero, RZero>>,
       <<RZero, grid_height_inch>>,
       <<grid_width_inch, RZero>>,
       <<grid_width_inch, grid_height_inch>> >>
grid_positions ==
    << <<RZero, RZero>>,
       <<grid_width_inch, RZero>>,
       <<RZero, grid_height_inch>>,
       <<grid_width_inch, grid_height_inch>> >>

\* lines 81-94: the virtual canvas (BoxFit.contain) inside one quadrant
virtual_canvas_swapped(target_card_ratio) ==
    IF RLt(grid_ratio, target_card_ratio)
    THEN LET w == RMul(grid_height_inch, target_card_ratio)
         IN  [width |-> w, height |-> grid_height_inch,
              left_offset |-> RDiv(RSub(grid_width_inch, w), RInt(2)),
              top_offset |-> RZero]
    ELSE IF RLt(target_card_ratio, grid_ratio)
    THEN LET h == RDiv(grid_width_inch, target_card_ratio)
         IN  [width |-> grid_width_inch, height |-> h,
              left_offset |-> RZero,
              top_offset |-> RDiv(RSub(grid_height_inch, h), RInt(2))]
    ELSE [width |-> grid_width_inch, height |-> grid_height_inch,
          left_offset |-> RZero, top_offset |-> RZero]
virtual_canvas(target_card_ratio) ==
    IF RLt(grid_ratio, target_card_ratio)
    THEN LET h == RDiv(grid_width_inch, target_card_ratio)           \* 89
         IN  [width |-> grid_width_inch, height |-> h,
              left_offset |-> RZero,
              top_offset |-> RDiv(RSub(grid_height_inch, h), RInt(2))]  \* 90
    ELSE IF RLt(target_card_ratio, grid_ratio)
    THEN LET w == RMul(grid_height_inch, target_card_ratio)          \* 93
         IN  [width |-> w, height |-> grid_height_inch,
              left_offset |-> RDiv(RSub(grid_width_inch, w), RInt(2)),  \* 94
              top_offset |-> RZero]
    ELSE [width |-> grid_width_inch, height |-> grid_height_inch,
          left_offset |-> RZero, top_offset |-> RZero]

(***************************************************************************)
(* Text resolution and text-box geometry (src/main.py 109-159).            *)
(***************************************************************************)
\* dict.get(key, default)
get(card_data, key, default) ==
    IF key \in DOMAIN card_data THEN card_data[key] ELSE default

\* lines 118-123
text_content_swapped(item_template, card_data) ==
    IF item_template.id = "title" THEN get(card_data, "group", "")
    ELSE IF item_template.id = "subtitle" THEN get(card_data, "name", "")
    ELSE item_template.text
text_content(item_template, card_data) ==
    IF item_template.id = "title" THEN get(card_data, "name", "")
    ELSE IF item_template.id = "subtitle" THEN get(card_data, "group", "")
    ELSE item_template.text

\* line 134: measured_height_pt or font_size_pt (None and 0 are falsy)
measured_height_pt(item_template) ==
    IF IsNone(item_template.measured_height_pt)
       \/ Get(item_template.measured_height_pt) = 0
    THEN item_template.font_size_pt
    ELSE Get(item_template.measured_height_pt)

\* line 130
center_y_abs_px_added(item_template, canvas_size) ==
    RAdd(Rat(canvas_size.height, 2), RInt(item_template.dy))
center_y_abs_px(item_template, canvas_size) ==
    RSub(Rat(canvas_size.height, 2), RInt(item_template.dy))

\* line 129
center_x_abs_px(item_template, canvas_size) ==
    RAdd(Rat(canvas_size.width, 2), RInt(item_template.dx))

\* lines 139-140 divide by pixels_per_inch_*, which is 0 for a 0 canvas side
text_box_raises(canvas_size) ==
    canvas_size.width = 0 \/ canvas_size.height = 0

\* lines 109-159: the rectangle handed to add_textbox, in inches
text_box(item_template, canvas_size, grid_pos, vc) ==
    LET canvas_width_px   == RInt(canvas_size.width)
        canvas_height_px  == RInt(canvas_size.height)
        pixels_per_inch_w == RDiv(canvas_width_px, vc.width)          \* 113
        pixels_per_inch_h == RDiv(canvas_height_px, vc.height)        \* 114
        box_width_px      == RMul(canvas_width_px, <<95, 100>>)       \* 136
        box_height_px     ==                                          \* 137
            RMul(RMul(RInt(measured_height_pt(item_template)), <<96, 72>>),
                 <<12, 10>>)
        box_width_inch    == RDiv(box_width_px, pixels_per_inch_w)    \* 139
        box_height_inch   == RDiv(box_height_px, pixels_per_inch_h)   \* 140
        left_rel_px       ==                                          \* 143
            RSub(center_x_abs_px(item_template, canvas_size),
                 RDiv(box_width_px, RInt(2)))
        top_rel_px        ==                                          \* 144
            RSub(center_y_abs_px(item_template, canvas_size),
                 RDiv(box_height_px, RInt(2)))
        left_rel_inch     == RDiv(left_rel_px, pixels_per_inch_w)     \* 146
        top_rel_inch      == RDiv(top_rel_px, pixels_per_inch_h)      \* 147
    IN  [left   |-> RAdd(RAdd(grid_pos[1], vc.left_offset), left_rel_inch),
         top    |-> RAdd(RAdd(grid_pos[2], vc.top_offset), top_rel_inch),
         width  |-> box_width_inch,
         height |-> box_height_inch]

(***************************************************************************)
(* generate_ppt helpers (src/main.py 199-211).                             *)
(***************************************************************************)
\* range(0, n, step) as the set of its elements
range(n, step) == {i \in 0..(n - 1) : i % step = 0}

\* line 200: [excel_data[i:i + chunk_size] for i in range(0, len, chunk_size)]
data_chunks_full_only(excel_data) ==
    [j \in 1..Cardinality(range(Len(excel_data) - (Len(excel_data) % chunk_size),
                                chunk_size)) |->
        SubSeq(excel_data, (j - 1) * chunk_size + 1, j * chunk_size)]
data_chunks(excel_data) ==
    [j \in 1..Cardinality(range(Len(excel_data), chunk_size)) |->
        SubSeq(excel_data, (j - 1) * chunk_size + 1,
               Min(j * chunk_size, Len(excel_data)))]

\* line 206
default_card_ratio ==
    RDiv(RDiv(slide_width, RInt(2)), RDiv(slide_height, RInt(2)))

\* lines 208-210
choose_target_ratio(canvas_aspect_ratio) ==
    IF ~IsNone(canvas_aspect_ratio) /\ RLt(RZero, Get(canvas_aspect_ratio))
    THEN Get(canvas_aspect_ratio)
    ELSE default_card_ratio

(***************************************************************************)
(* io.BytesIO at the granularity of whole writes: buf is the sequence of   *)
(* the chunks written (an encoded image, or what a failed encoder left),   *)
(* pos the position, counted in chunks.                                    *)
(***************************************************************************)
BytesIO == [buf |-> <<>>, pos |-> 0]
Encoded(img) == [valid |-> TRUE, width |-> img.width, height |-> img.height]
Truncated    == [valid |-> FALSE, width |-> 0, height |-> 0]
\* the bytes read hold an image that add_picture can identify
is_image(blob) == Len(blob) > 0 /\ blob[1].valid
\* write at the position: the chunk replaces what was there and the rest
\* of the buffer stays; a position past the end is first filled with Nul
Nul == [valid |-> FALSE, width |-> 0, height |-> 0]
write(stream, chunk) ==
    [buf |-> [k \in 1..Max(Len(stream.buf), stream.pos + 1) |->
                IF k = stream.pos + 1 THEN chunk
                ELSE IF k <= Len(stream.buf) THEN stream.buf[k]
                ELSE Nul],
     pos |-> stream.pos + 1]
seek_ignored(stream, p) == stream
seek(stream, p) == [stream EXCEPT !.pos = p]
read(stream) == SubSeq(stream.buf, stream.pos + 1, Len(stream.buf))

\* PIL Image.save: fails when the format has no encoder or the image is empty
save_raises(img, bg) ==
    ~bg.writable \/ img.width = 0 \/ img.height = 0

(***************************************************************************)
(* Bounds and the requests drawn by Init.                                  *)
(***************************************************************************)
MaxRows      == 8      \* most data rows in a request
MaxTemplates == 2      \* most text-item templates in a request
MaxSide      == 2      \* largest side, in pixels, of a background image
MaxDim       == 8      \* image sides 1.., 100.. and 201.. up to MaxDim more, fitter alone
MaxNum       == 6      \* largest numerator of a target ratio, fitter alone

\* excelData rows: Dict[str, str], some without "name" or "group"
RowPool ==
    << [name |-> "Row1", group |-> "G1"],
       [name |-> "Row2", group |-> "G2"],
       [name |-> "Row3"],
       [group |-> "G4"],
       [name |-> "Row5", group |-> "G1", memo |-> "x"] >>

ExcelDatas ==
    { [k \in 1..n |-> RowPool[((k - 1) % Len(RowPool)) + 1]] : n \in 0..MaxRows }

\* textItems templates (TextItem, lines 21-29); dx, dy, sizes in whole units
TemplatePool ==
    << [id |-> "title", text |-> "unused", dx |-> 0, dy |-> 0,
        font_size_pt |-> 20, measured_height_pt |-> None],
       [id |-> "title", text |-> "T", dx |-> 0, dy |-> 100,
        font_size_pt |-> 20, measured_height_pt |-> None],
       [id |-> "subtitle", text |-> "Sub", dx |-> 30, dy |-> -50,
        font_size_pt |-> 12, measured_height_pt |-> Some(30)],
       [id |-> "footer", text |-> "Member", dx |-> -20, dy |-> 40,
        font_size_pt |-> 10, measured_height_pt |-> Some(0)] >>

TextItemLists ==
    { SubSeq(TemplatePool, a, Min(a + n - 1, Len(TemplatePool))) :
        a \in 1..Len(TemplatePool), n \in 0..MaxTemplates }

CanvasSizes == { [width |-> 400, height |-> 600], [width |-> 0, height |-> 600] }

AspectRatios ==
    { None, Some(<<0, 1>>), Some(<<2, 1>>), Some(<<1, 2>>), Some(<<3, 4>>) }

\* backgroundImageBytes: absent, the empty string, a string that b64decode
\* rejects, bytes that are no image, an image (writable: PIL has an encoder
\* for its format)
NoImage(kind) == [kind |-> kind, width |-> 0, height |-> 0, writable |-> FALSE]
Backgrounds ==
    { None, Some(NoImage("empty")), Some(NoImage("bad_base64")),
      Some(NoImage("not_image")),
      Some([kind |-> "image", width |-> 2, height |-> 1, writable |-> FALSE]) }
    \cup { Some([kind |-> "image", width |-> w, height |-> h, writable |-> TRUE]) :
             w \in 1..MaxSide, h \in {1, MaxSide} }

Requests ==
    [background_image_bytes : Backgrounds,
     canvas_size            : CanvasSizes,
     canvas_aspect_ratio    : AspectRatios,
     text_items             : TextItemLists,
     excel_data             : ExcelDatas]

\* inputs of the image fitter checked on its own
\* small sides, where truncation shows; sides from 100 pixels, where a
\* ratio can be within 0.01 of the target without being equal to it, or
\* exactly 0.01 away from it (101x100 at ratio 1); sides above 200 pixels,
\* where that happens in a higher binade (201x100 at ratio 2)
Sides  == (1..MaxDim) \cup {100 + k : k \in 0..MaxDim}
                     \cup {200 + k : k \in 1..MaxDim}
Images == { [width |-> w, height |-> h] : w \in Sides, h \in Sides }
\* target ratios: doubles n/d with a small power-of-two denominator, the
\* default of line 206, and decimal ratios that are no doubles: 0.28 and
\* 0.29, whose doubles lie on either side of them (7 / 0.28 and 0.29 * 100
\* are whole numbers in exact arithmetic), 1.01 and 2.01, exactly 0.01 away
\* from the ratios of 1x1 and 2x1 images
DecimalRatios == { <<7, 25>>, <<29, 100>>, <<101, 100>>, <<201, 100>> }
Ratios == { Rat(n, d) : n \in 1..MaxNum, d \in {1, 2, 4} }
              \cup {default_card_ratio} \cup DecimalRatios

(***************************************************************************)
(* State                                                                   *)
(***************************************************************************)
VARIABLES
    data,          \* the request (CanvasData)
    pc,            \* position in generate_ppt / add_cards_on_slide
    chunks,        \* data_chunks
    target_ratio,  \* target_ratio
    stream,        \* cropped_background_stream: None or Some(BytesIO)
    bg_failed,     \* the except clause of line 223 ran
    n_crops,       \* calls of crop_image_to_ratio so far
    n_writes,      \* writes into the background stream so far
    pages,         \* len(prs.slides)
    chunk_no,      \* 1-based number of the chunk being laid out
    i,             \* enumerate index of the card in the chunk (line 75)
    t,             \* templates already rendered for the card (line 116)
    cards,         \* cards begun: page, slot, row, quadrant, virtual canvas
    shapes,        \* shapes added to the slides, in order
    c_img,         \* image fitter alone: the input image
    c_ratio,       \*   the target ratio
    c_box,         \*   the crop box of the first application
    c_out1,        \*   the first output
    c_out2,        \*   the output of the second application
    c_pc           \*   "input", "once", "twice", "raised"

req_vars  == <<data, pc, chunks, target_ratio, stream, bg_failed, n_crops,
               n_writes, pages, chunk_no, i, t, cards, shapes>>
crop_vars == <<c_img, c_ratio, c_box, c_out1, c_out2, c_pc>>
vars      == <<data, pc, chunks, target_ratio, stream, bg_failed, n_crops,
               n_writes, pages, chunk_no, i, t, cards, shapes,
               c_img, c_ratio, c_box, c_out1, c_out2, c_pc>>

NoCrop ==
    /\ c_img = [width |-> 1, height |-> 1]
    /\ c_ratio = <<1, 1>>
    /\ c_box = <<0, 0, 0, 0>>
    /\ c_out1 = [width |-> 1, height |-> 1]
    /\ c_out2 = [width |-> 1, height |-> 1]
    /\ c_pc = "unused"

Init ==
    /\ data \in Requests
    /\ pc = "prepare"
    /\ chunks = <<>>
    /\ target_ratio = <<1, 1>>
    /\ stream = None
    /\ bg_failed = FALSE
    /\ n_crops = 0
    /\ n_writes = 0
    /\ pages = 0
    /\ chunk_no = 0
    /\ i = 0
    /\ t = 0
    /\ cards = <<>>
    /\ shapes = <<>>
    /\ NoCrop

(***************************************************************************)
(* generate_ppt (src/main.py 193-249)                                      *)
(***************************************************************************)
\* lines 194-211: presentation, chunks, target ratio
Prepare ==
    /\ pc = "prepare"
    /\ chunks' = data_chunks(data.excel_data)
    /\ target_ratio' = choose_target_ratio(data.canvas_aspect_ratio)
    /\ pc' = "background"
    /\ UNCHANGED <<data, stream, bg_failed, n_crops, n_writes, pages,
                   chunk_no, i, t, cards, shapes>>
    /\ UNCHANGED crop_vars

\* lines 213-224: decode, open, crop and re-encode the background
ProcessBackground ==
    /\ pc = "background"
    /\ LET b == data.background_image_bytes IN
       IF IsNone(b) \/ Get(b).kind = "empty"
       THEN \* line 214: None and "" are falsy
            /\ stream' = None
            /\ UNCHANGED <<bg_failed, n_crops, n_writes>>
       ELSE IF Get(b).kind \in {"bad_base64", "not_image"}
       THEN \* line 216 or 217 raises; line 213 left the stream None
            /\ stream' = None
            /\ bg_failed' = TRUE
            /\ UNCHANGED <<n_crops, n_writes>>
       ELSE LET original_image == [width |-> Get(b).width,
                                   height |-> Get(b).height]
                cropped_image  == crop_image_to_ratio(original_image,
                                                      target_ratio)
            IN  /\ n_crops' = n_crops + 1
                /\ IF save_raises(cropped_image, Get(b))
                   THEN \* line 221 raises after line 220 bound the stream;
                        \* the encoder wrote nothing or a truncated header
                        /\ \/ stream' = Some(BytesIO) /\ UNCHANGED n_writes
                           \/ /\ stream' = Some(write(BytesIO, Truncated))
                              /\ n_writes' = n_writes + 1
                        /\ bg_failed' = TRUE
                   ELSE \* lines 221-222
                        /\ stream' = Some(seek(write(BytesIO,
                                                       Encoded(cropped_image)), 0))
                        /\ n_writes' = n_writes + 1
                        /\ UNCHANGED bg_failed
    /\ pc' = "slide_loop"
    /\ UNCHANGED <<data, chunks, target_ratio, pages, chunk_no, i, t, cards,
                   shapes>>
    /\ UNCHANGED crop_vars

\* lines 226-228: the next chunk gets a new slide
AddSlide ==
    /\ pc = "slide_loop"
    /\ chunk_no < Len(chunks)
    /\ chunk_no' = chunk_no + 1
    /\ pages' = pages + 1
    /\ i' = 0
    /\ pc' = "card_loop"
    /\ UNCHANGED <<data, chunks, target_ratio, stream, bg_failed, n_crops,
                   n_writes, t, cards, shapes>>
    /\ UNCHANGED crop_vars

\* lines 241-249: no chunk left, the document is saved and returned
Respond ==
    /\ pc = "slide_loop"
    /\ chunk_no = Len(chunks)
    /\ pc' = "done"
    /\ UNCHANGED <<data, chunks, target_ratio, stream, bg_failed, n_crops,
                   n_writes, pages, chunk_no, i, t, cards, shapes>>
    /\ UNCHANGED crop_vars

(***************************************************************************)
(* add_cards_on_slide (src/main.py 58-189)                                 *)
(***************************************************************************)
\* lines 75-94: the next card of the chunk, its quadrant and virtual canvas
BeginCard ==
    /\ pc = "card_loop"
    /\ i < Len(chunks[chunk_no])
    /\ cards' = Append(cards,
                    [page      |-> pages,
                     slot      |-> i,
                     card_data |-> chunks[chunk_no][i + 1],
                     grid_pos  |-> grid_positions[i + 1],
                     vc        |-> virtual_canvas(target_ratio)])
    /\ t' = 0
    /\ pc' = IF IsNone(stream) THEN "text_loop" ELSE "seek"      \* line 97
    /\ UNCHANGED <<data, chunks, target_ratio, stream, bg_failed, n_crops,
                   n_writes, pages, chunk_no, i, shapes>>
    /\ UNCHANGED crop_vars

\* the chunk is exhausted: add_cards_on_slide returns
EndSlide ==
    /\ pc = "card_loop"
    /\ i = Len(chunks[chunk_no])
    /\ pc' = "slide_loop"
    /\ UNCHANGED <<data, chunks, target_ratio, stream, bg_failed, n_crops,
                   n_writes, pages, chunk_no, i, t, cards, shapes>>
    /\ UNCHANGED crop_vars

\* line 98
SeekStream ==
    /\ pc = "seek"
    /\ stream' = Some(seek(Get(stream), 0))
    /\ pc' = "picture"
    /\ UNCHANGED <<data, chunks, target_ratio, bg_failed, n_crops, n_writes,
                   pages, chunk_no, i, t, cards, shapes>>
    /\ UNCHANGED crop_vars

\* lines 99-105: add_picture reads the stream to its end; bytes that are no
\* image make it raise, and nothing catches that
AddPicture ==
    /\ pc = "picture"
    /\ LET card == cards[Len(cards)]
           blob == read(Get(stream))
       IN  /\ stream' = Some(seek(Get(stream), Len(Get(stream).buf)))
           /\ IF ~is_image(blob)
              THEN /\ pc' = "error"
                   /\ UNCHANGED shapes
              ELSE /\ pc' = "text_loop"
                   /\ shapes' = Append(shapes,
                        [kind   |-> "picture",
                         page   |-> card.page,
                         slot   |-> card.slot,
                         item   |-> 0,
                         left   |-> RAdd(card.grid_pos[1], card.vc.left_offset),
                         top    |-> RAdd(card.grid_pos[2], card.vc.top_offset),
                         width  |-> card.vc.width,
                         height |-> card.vc.height,
                         text   |-> "",
                         blob   |-> blob])
    /\ UNCHANGED <<data, chunks, target_ratio, bg_failed, n_crops, n_writes,
                   pages, chunk_no, i, t, cards>>
    /\ UNCHANGED crop_vars

\* lines 116-189: one text-item template is rendered for the card
AddTextBox ==
    /\ pc = "text_loop"
    /\ t < Len(data.text_items)
    /\ LET card == cards[Len(cards)]
           item_template == data.text_items[t + 1]
       IN  IF text_box_raises(data.canvas_size)
           THEN /\ pc' = "error"
                /\ UNCHANGED <<t, shapes>>
           ELSE LET box == text_box(item_template, data.canvas_size,
                                    card.grid_pos, card.vc)
                IN  /\ shapes' = Append(shapes,
                         [kind   |-> "textbox",
                          page   |-> card.page,
                          slot   |-> card.slot,
                          item   |-> t + 1,
                          left   |-> box.left,
                          top    |-> box.top,
                          width  |-> box.width,
                          height |-> box.height,
                          text   |-> text_content(item_template, card.card_data),
                          blob   |-> <<>>])
                    /\ t' = t + 1
                    /\ pc' = "text_loop"
    /\ UNCHANGED <<data, chunks, target_ratio, stream, bg_failed, n_crops,
                   n_writes, pages, chunk_no, i, cards>>
    /\ UNCHANGED crop_vars

\* the templates are exhausted: the loop of line 75 advances
NextCard ==
    /\ pc = "text_loop"
    /\ t = Len(data.text_items)
    /\ i' = i + 1
    /\ pc' = "card_loop"
    /\ UNCHANGED <<data, chunks, target_ratio, stream, bg_failed, n_crops,
                   n_writes, pages, chunk_no, t, cards, shapes>>
    /\ UNCHANGED crop_vars

Next ==
    \/ Prepare
    \/ ProcessBackground
    \/ AddSlide
    \/ Respond
    \/ BeginCard
    \/ EndSlide
    \/ SeekStream
    \/ AddPicture
    \/ AddTextBox
    \/ NextCard

Spec == Init /\ [][Next]_vars

(***************************************************************************)
(* The image fitter on its own: crop_image_to_ratio applied to an image    *)
(* and then to its own output.                                             *)
(***************************************************************************)
NoRequest ==
    /\ data = [background_image_bytes |-> None,
               canvas_size |-> [width |-> 0, height |-> 0],
               canvas_aspect_ratio |-> None,
               text_items |-> <<>>,
               excel_data |-> <<>>]
    /\ pc = "unused"
    /\ chunks = <<>>
    /\ target_ratio = <<1, 1>>
    /\ stream = None
    /\ bg_failed = FALSE
    /\ n_crops = 0
    /\ n_writes = 0
    /\ pages = 0
    /\ chunk_no = 0
    /\ i = 0
    /\ t = 0
    /\ cards = <<>>
    /\ shapes = <<>>

InitCrop ==
    /\ c_img \in Images
    /\ c_ratio \in Ratios
    /\ c_box = <<0, 0, 0, 0>>
    /\ c_out1 = c_img
    /\ c_out2 = c_img
    /\ c_pc = "input"
    /\ NoRequest

CropOnce ==
    /\ c_pc = "input"
    /\ c_box' = crop_box(c_img, c_ratio)
    /\ c_out1' = crop_image_to_ratio(c_img, c_ratio)
    /\ c_pc' = "once"
    /\ UNCHANGED <<c_img, c_ratio, c_out2>>
    /\ UNCHANGED req_vars

CropTwice ==
    /\ c_pc = "once"
    /\ ~crop_raises(c_out1)
    /\ c_out2' = crop_image_to_ratio(c_out1, c_ratio)
    /\ c_pc' = "twice"
    /\ UNCHANGED <<c_img, c_ratio, c_box, c_out1>>
    /\ UNCHANGED req_vars

\* the first output is empty: line 43 raises ZeroDivisionError
CropTwiceRaises ==
    /\ c_pc = "once"
    /\ crop_raises(c_out1)
    /\ c_pc' = "raised"
    /\ UNCHANGED <<c_img, c_ratio, c_box, c_out1, c_out2>>
    /\ UNCHANGED req_vars

NextCrop == CropOnce \/ CropTwice \/ CropTwiceRaises

SpecCrop == InitCrop /\ [][NextCrop]_vars


(***************************************************************************)
(* Properties of the image fitter, checked under SpecCrop.                 *)
(***************************************************************************)
\* |width/height - r| < 0.01, written out on the integers
Close(img, r) ==
    /\ img.height > 0
    /\ 100 * Abs(img.width * r[2] - r[1] * img.height) < img.height * r[2]

\* |width/height - r| <= 0.01
AtMostTolerance(img, r) ==
    /\ img.height > 0
    /\ 100 * Abs(img.width * r[2] - r[1] * img.height) <= img.height * r[2]

\* the source is relatively wider than the target: width/height > r
Wider(img, r) == img.width * r[2] > r[1] * img.height

Cropped == c_pc # "input" /\ c_out1 # c_img

\* the double of the ratio r is r itself
IsDouble(r) == round_err(r[1], r[2]) = 0

\* side is the exact side num / den as int() leaves it: truncated to a whole
\* pixel, 0 <= num / den - side < 1; or, when r is no double and num / den is
\* a whole number, possibly one pixel less than that number
IntOf(side, num, den, r) ==
    /\ den * side <= num
    /\ num <= den * (side + 1)
    /\ num = den * (side + 1) => ~IsDouble(r)

\* C4 as stated: the output of crop_image_to_ratio is the input unchanged
\* (only when the input's ratio is within 0.01 of r) or an image whose
\* width/height ratio is within 0.01 of r.
C4_RatioWithinTolerance_AsClaimed ==
    c_pc # "input" =>
        \/ c_out1 = c_img /\ Close(c_img, c_ratio)
        \/ Close(c_out1, c_ratio)

\* C4 amended: the output is the input unchanged whenever the input's ratio
\* is within 0.01 of r, never when it is more than 0.01 away, and at a
\* distance of exactly 0.01 as the rounding of the doubles decides;
\* otherwise one side is kept and the other is the exact side (r * height,
\* or width / r) truncated to a whole pixel:
\* 0 <= r * height - width' < 1, or 0 <= width / r - height' < 1; when r is
\* no double and the exact side is a whole number, the new side can be one
\* pixel less than that number.
C4_CropWithinOnePixel ==
    c_pc # "input" =>
        /\ Close(c_img, c_ratio) => c_out1 = c_img
        /\ c_out1 = c_img => AtMostTolerance(c_img, c_ratio)
        /\ c_out1 # c_img =>
             IF Wider(c_img, c_ratio)
             THEN /\ c_out1.height = c_img.height
                  /\ IntOf(c_out1.width, c_ratio[1] * c_img.height,
                           c_ratio[2], c_ratio)
             ELSE /\ c_out1.width = c_img.width
                  /\ IntOf(c_out1.height, c_ratio[2] * c_img.width,
                           c_ratio[1], c_ratio)

\* a crop happened and left a non-empty image whose ratio is not within
\* 0.01 of the target
C4_Witness ==
    /\ c_pc = "once"
    /\ c_out1 # c_img
    /\ c_out1.width > 0 /\ c_out1.height > 0
    /\ ~Close(c_out1, c_ratio)

\* C5 as stated: a second application with the same ratio returns the first
\* output unchanged.
C5_Idempotent_AsClaimed == c_pc = "twice" => c_out2 = c_out1

\* C5 amended: a second application returns the first output unchanged
\* whenever that output's ratio is within 0.01 of r, and whenever the first
\* application returned its input; it crops again whenever that ratio is
\* more than 0.01 away from r, and at a distance of exactly 0.01 as the
\* rounding of the doubles decides.  When it crops again it reduces the
\* side the first application kept, leaves the side the first application
\* reduced, and never enlarges the image.  It raises exactly when the first
\* output has height 0.
C5_SecondCropStable ==
    /\ c_pc = "raised" => c_out1.height = 0
    /\ c_pc = "twice" =>
        /\ c_out1.height > 0
        /\ Close(c_out1, c_ratio) => c_out2 = c_out1
        /\ c_out1 = c_img => c_out2 = c_out1
        /\ c_out2 = c_out1 => AtMostTolerance(c_out1, c_ratio)
        /\ c_out2.width <= c_out1.width
        /\ c_out2.height <= c_out1.height
        /\ c_out1.width < c_img.width => c_out2.width = c_out1.width
        /\ c_out1.height < c_img.height => c_out2.height = c_out1.height
        /\ (c_out2 # c_out1 /\ c_out1.width < c_img.width)
             => c_out2.height < c_out1.height
        /\ (c_out2 # c_out1 /\ c_out1.height < c_img.height)
             => c_out2.width < c_out1.width

\* the first application cropped to within 0.01 of the target, not exactly
\* onto it, and the second application returned that output
C5_Witness ==
    /\ c_pc = "twice"
    /\ c_out1 # c_img
    /\ Close(c_out1, c_ratio)
    /\ c_out1.width * c_ratio[2] # c_ratio[1] * c_out1.height
    /\ c_out2 = c_out1

\* C6 as stated: a wide source keeps its height and the columns
\* [o, o + nw) with nw = round(r * height), o = (width - nw) // 2; any other
\* cropped source keeps its width and the rows [o, o + nh) with
\* nh = round(width / r), o = (height - nh) // 2.
C6_CropBand_AsClaimed ==
    Cropped =>
        IF Wider(c_img, c_ratio)
        THEN LET nw == round(RMul(c_ratio, RInt(c_img.height)))
                 o  == (c_img.width - nw) \div 2
             IN  c_box = <<o, 0, o + nw, c_img.height>>
        ELSE LET nh == round(RDiv(RInt(c_img.width), c_ratio))
                 o  == (c_img.height - nh) \div 2
             IN  c_box = <<0, o, c_img.width, o + nh>>

\* C6 amended: as stated, with the new side truncated instead of rounded
\* (nw is the integer with nw <= r * height < nw + 1, nh the integer with
\* nh <= width / r < nh + 1; one less than r * height or width / r when
\* that is a whole number and the double of r puts the computed value
\* below it); one axis only is cropped, and the margins
\* removed on its two sides differ by at most one pixel, the larger one on
\* the right or the bottom.
C6_CropBand ==
    Cropped =>
        LET left   == c_box[1]
            upper  == c_box[2]
            right  == c_img.width - c_box[3]
            lower  == c_img.height - c_box[4]
            nw     == c_box[3] - c_box[1]
            nh     == c_box[4] - c_box[2]
        IN  IF Wider(c_img, c_ratio)
            THEN /\ upper = 0 /\ lower = 0
                 /\ IntOf(nw, c_ratio[1] * c_img.height, c_ratio[2], c_ratio)
                 /\ left = (c_img.width - nw) \div 2
                 /\ left >= 0
                 /\ right - left \in {0, 1}
            ELSE /\ left = 0 /\ right = 0
                 /\ IntOf(nh, c_ratio[2] * c_img.width, c_ratio[1], c_ratio)
                 /\ upper = (c_img.height - nh) \div 2
                 /\ upper >= 0
                 /\ lower - upper \in {0, 1}

\* a wide source was cropped by an odd number of columns, and the exact new
\* width had a fractional part of at least one half (truncation and
\* rounding differ)
C6_Witness ==
    /\ c_pc = "once"
    /\ Wider(c_img, c_ratio)
    /\ c_out1 # c_img
    /\ c_box[1] > 0
    /\ c_img.width - c_box[3] = c_box[1] + 1
    /\ round(RMul(c_ratio, RInt(c_img.height))) # c_box[3] - c_box[1]


(***************************************************************************)
(* Properties of the request handler, checked under Spec.  A document is   *)
(* returned in the states with pc = "done"; a run that ends with           *)
(* pc = "error" raised an exception and returns no document.               *)
(***************************************************************************)
Done == pc = "done"
N    == Len(data.excel_data)

\* the quadrants written out: half an A4 page each, row-major
QuadW        == <<827, 200>>
QuadH        == <<1169, 200>>
QuadLeft(q)  == IF q % 2 = 0 THEN RZero ELSE QuadW
QuadTop(q)   == IF q \div 2 = 0 THEN RZero ELSE QuadH

CardsOn(p)   == {k \in 1..Len(cards) : cards[k].page = p}
ShapesIn(p, q) ==
    {k \in 1..Len(shapes) : shapes[k].page = p /\ shapes[k].slot = q}
Pictures     == {k \in 1..Len(shapes) : shapes[k].kind = "picture"}
TextBoxes    == {k \in 1..Len(shapes) : shapes[k].kind = "textbox"}
CardOf(k)    ==
    cards[CHOOSE c \in 1..Len(cards) :
            cards[c].page = shapes[k].page /\ cards[c].slot = shapes[k].slot]
RowOf(k)     == data.excel_data[4 * (shapes[k].page - 1) + shapes[k].slot + 1]
TemplateOf(k) == data.text_items[shapes[k].item]

\* C1: a returned document has ceil(N/4) pages; every page but the last has
\* 4 populated quadrants, the last has N mod 4 of them (4 when N is a
\* positive multiple of 4), and the quadrants after those hold nothing.
C1_GridPartition ==
    Done =>
        /\ pages = (N + 3) \div 4
        /\ \A p \in 1..pages :
             LET want == IF p < pages \/ N % 4 = 0 THEN 4 ELSE N % 4
             IN  /\ {cards[k].slot : k \in CardsOn(p)} = 0..(want - 1)
                 /\ Cardinality(CardsOn(p)) = want
                 /\ \A q \in want..3 : ShapesIn(p, q) = {}

\* a document of two pages for five rows: four cards, then one
C1_Witness ==
    /\ Done
    /\ N = 5
    /\ pages = 2
    /\ Cardinality(CardsOn(1)) = 4
    /\ Cardinality(CardsOn(2)) = 1
    /\ Len(shapes) > 5

\* C2: in a returned document the row at 0-based index k is the card of
\* page floor(k/4), quadrant k mod 4 (top-left, top-right, bottom-left,
\* bottom-right); there is one card per row, no quadrant holds two, and
\* every picture and text box belongs to a quadrant that has a row.
C2_RowOrder ==
    Done =>
        /\ Len(cards) = N
        /\ \A k \in 1..N :
             /\ cards[k].page = ((k - 1) \div 4) + 1
             /\ cards[k].slot = (k - 1) % 4
             /\ cards[k].card_data = data.excel_data[k]
             /\ cards[k].grid_pos = <<QuadLeft((k - 1) % 4), QuadTop((k - 1) % 4)>>
        /\ \A s \in 1..Len(shapes) :
             4 * (shapes[s].page - 1) + shapes[s].slot + 1 \in 1..N
        /\ \A s \in Pictures :
             /\ RLe(QuadLeft(shapes[s].slot), shapes[s].left)
             /\ RLe(QuadTop(shapes[s].slot), shapes[s].top)
             /\ RLe(RAdd(shapes[s].left, shapes[s].width),
                    RAdd(QuadLeft(shapes[s].slot), QuadW))
             /\ RLe(RAdd(shapes[s].top, shapes[s].height),
                    RAdd(QuadTop(shapes[s].slot), QuadH))

\* six rows with a background: the sixth row's picture is in the top-right
\* quadrant of page 2, whose two lower quadrants are empty
C2_Witness ==
    /\ Done
    /\ N = 6
    /\ \E s \in Pictures :
         /\ shapes[s].page = 2
         /\ shapes[s].slot = 1
         /\ RLe(QuadW, shapes[s].left)
         /\ RLt(shapes[s].top, QuadH)
    /\ ShapesIn(2, 2) = {} /\ ShapesIn(2, 3) = {}

\* C3: in a returned document every text box shows the "name" of its
\* quadrant's row when its template's id is "title", the "group" of that row
\* when the id is "subtitle" (the empty string when the row lacks the key),
\* and the template's literal text otherwise.
C3_TextResolution ==
    Done =>
        \A s \in TextBoxes :
            LET row == RowOf(s)
                tpl == TemplateOf(s)
            IN  shapes[s].text =
                    IF tpl.id = "title"
                    THEN (IF "name" \in DOMAIN row THEN row.name ELSE "")
                    ELSE IF tpl.id = "subtitle"
                    THEN (IF "group" \in DOMAIN row THEN row.group ELSE "")
                    ELSE tpl.text

\* the second row's card shows "Row2" for a title template and "G2" for a
\* subtitle template, and some card shows the literal text of another id
C3_Witness ==
    /\ Done
    /\ \E s \in TextBoxes :
         shapes[s].slot = 1 /\ TemplateOf(s).id = "title" /\ shapes[s].text = "Row2"
    /\ \E s \in TextBoxes :
         shapes[s].slot = 1 /\ TemplateOf(s).id = "subtitle" /\ shapes[s].text = "G2"


\* C7: a failure of the background processing (decode, open, crop or
\* re-encode) is treated as "no background": the request does not fail for
\* it (it fails only where the same request without a background fails too,
\* on a canvas with a zero side) and no quadrant receives a picture.
C7_BackgroundFailureNonFatal ==
    bg_failed =>
        /\ Pictures = {}
        /\ pc = "error" =>
             text_box_raises(data.canvas_size) /\ data.text_items # <<>>

\* C8: the background is cropped at most once (exactly once when an image
\* was decoded), before any page is built; after that the buffer is never
\* written; a picture insertion is entered only from the seek, which leaves
\* the stream position at 0, and the insertion reads the whole buffer.
C8_BackgroundOnce ==
    [][ /\ n_crops' <= 1
        /\ pc # "background" =>
             /\ n_crops' = n_crops
             /\ n_writes' = n_writes
             /\ IsNone(stream') = IsNone(stream)
             /\ ~IsNone(stream) => Get(stream').buf = Get(stream).buf
        /\ (pc = "background" /\ pc' # "background") =>
             /\ pages = 0 /\ cards = <<>> /\ shapes = <<>>
             /\ n_crops' = IF ~IsNone(data.background_image_bytes)
                              /\ Get(data.background_image_bytes).kind = "image"
                           THEN 1 ELSE 0
        /\ (pc' = "picture" /\ pc # "picture") =>
             /\ pc = "seek"
             /\ Get(stream').pos = 0
        /\ (pc = "picture" /\ pc' # "picture") =>
             /\ Get(stream).pos = 0
             /\ pc' = "text_loop" =>
                  /\ Len(shapes') = Len(shapes) + 1
                  /\ shapes'[Len(shapes')].kind = "picture"
                  /\ shapes'[Len(shapes')].blob = Get(stream).buf
        /\ Len(shapes') > Len(shapes) /\ shapes'[Len(shapes')].kind = "picture"
             => pc = "picture"
      ]_vars

\* a document with pictures on two pages, all read from the one crop
C8_Witness ==
    /\ Done
    /\ n_crops = 1
    /\ n_writes = 1
    /\ Cardinality(Pictures) >= 5
    /\ \A s \in Pictures : shapes[s].blob = Get(stream).buf

\* C9: the virtual canvas of every card has the target ratio, lies inside
\* its quadrant, spans the quadrant on one axis, is centred on the other,
\* and is the same rectangle relative to the quadrant for every card; a
\* picture is placed exactly on it.
C9_VirtualCanvas ==
    Done =>
        /\ \A k \in 1..Len(cards) :
             LET vc == cards[k].vc
             IN  /\ RLt(RZero, vc.width) /\ RLt(RZero, vc.height)
                 /\ RDiv(vc.width, vc.height) = target_ratio
                 /\ RLe(vc.width, QuadW) /\ RLe(vc.height, QuadH)
                 /\ RLe(RZero, vc.left_offset) /\ RLe(RZero, vc.top_offset)
                 /\ vc.width = QuadW \/ vc.height = QuadH
                 /\ RAdd(RMul(RInt(2), vc.left_offset), vc.width) = QuadW
                 /\ RAdd(RMul(RInt(2), vc.top_offset), vc.height) = QuadH
                 /\ vc = cards[1].vc
        /\ \A s \in Pictures :
             LET vc == CardOf(s).vc
             IN  /\ shapes[s].left = RAdd(QuadLeft(shapes[s].slot), vc.left_offset)
                 /\ shapes[s].top = RAdd(QuadTop(shapes[s].slot), vc.top_offset)
                 /\ shapes[s].width = vc.width
                 /\ shapes[s].height = vc.height

\* a two-page document whose cards are letter-boxed above and below (a
\* target ratio of 2 in a quadrant of ratio 827/1169)
C9_Witness ==
    /\ Done
    /\ target_ratio = <<2, 1>>
    /\ Len(cards) >= 5
    /\ RLt(RZero, cards[5].vc.top_offset)
    /\ Pictures # {}

\* the placement of text box s with the measured height taken as mh
Placed(s, mh) ==
    LET tpl == TemplateOf(s)
        vc  == CardOf(s).vc
        W   == RInt(data.canvas_size.width)
        H   == RInt(data.canvas_size.height)
        cx  == RAdd(shapes[s].left, RDiv(shapes[s].width, RInt(2)))
        cy  == RAdd(shapes[s].top, RDiv(shapes[s].height, RInt(2)))
    IN  /\ shapes[s].width = RMul(<<95, 100>>, vc.width)
        /\ shapes[s].height =
             RMul(RMul(RMul(RInt(mh), <<96, 72>>), <<12, 10>>),
                  RDiv(vc.height, H))
        /\ cx = RAdd(RAdd(QuadLeft(shapes[s].slot), vc.left_offset),
                     RMul(RDiv(RAdd(RDiv(W, RInt(2)), RInt(tpl.dx)), W),
                          vc.width))
        /\ cy = RAdd(RAdd(QuadTop(shapes[s].slot), vc.top_offset),
                     RMul(RDiv(RSub(RDiv(H, RInt(2)), RInt(tpl.dy)), H),
                          vc.height))
        /\ (tpl.dx = 0 /\ tpl.dy = 0) =>
             /\ cx = RAdd(RAdd(QuadLeft(shapes[s].slot), vc.left_offset),
                          RDiv(vc.width, RInt(2)))
             /\ cy = RAdd(RAdd(QuadTop(shapes[s].slot), vc.top_offset),
                          RDiv(vc.height, RInt(2)))

\* of two text boxes of one card with equal heights, the one with the larger
\* dy is higher on the page
HigherDyIsHigher ==
    \A a, b \in TextBoxes :
        ( /\ shapes[a].page = shapes[b].page
          /\ shapes[a].slot = shapes[b].slot
          /\ shapes[a].height = shapes[b].height
          /\ TemplateOf(a).dy > TemplateOf(b).dy )
        => RLt(shapes[a].top, shapes[b].top)

\* C10 as stated: the measured height is the template's measured height,
\* the font size standing in only when it is absent.
C10_TextBoxPlacement_AsClaimed ==
    Done =>
        /\ \A s \in TextBoxes :
             Placed(s, IF IsNone(TemplateOf(s).measured_height_pt)
                       THEN TemplateOf(s).font_size_pt
                       ELSE Get(TemplateOf(s).measured_height_pt))
        /\ HigherDyIsHigher

\* C10 amended: as stated, with the font size standing in for the measured
\* height when it is absent or zero.
C10_TextBoxPlacement ==
    Done =>
        /\ \A s \in TextBoxes :
             Placed(s, IF IsNone(TemplateOf(s).measured_height_pt)
                          \/ Get(TemplateOf(s).measured_height_pt) = 0
                       THEN TemplateOf(s).font_size_pt
                       ELSE Get(TemplateOf(s).measured_height_pt))
        /\ HigherDyIsHigher

\* a document with a text box of a template measured at 0 points, which is
\* as high as its font size makes it, and a card with two text boxes of
\* different dy
C10_Witness ==
    /\ Done
    /\ \E s \in TextBoxes :
         /\ TemplateOf(s).measured_height_pt = Some(0)
         /\ RLt(RZero, shapes[s].height)
    /\ \E a, b \in TextBoxes :
         /\ shapes[a].page = shapes[b].page /\ shapes[a].slot = shapes[b].slot
         /\ TemplateOf(a).dy # TemplateOf(b).dy

=============================================================================
